---- MODULE Spec2Model ----
(***************************************************************************)
(* Pipeline state machine of MDB_BOT/main.py: two source channels feed a   *)
(* shared address -> stage dictionary (pending_ca_for_analysis); replies   *)
(* of two intermediary agents advance the entries; the last step forwards  *)
(* the address to the chain's target group and deletes the entry.          *)
(*                                                                         *)
(* Handlers are coroutines run by the Telethon dispatcher: the handlers    *)
(* registered for one chat run in registration order on every message of   *)
(* that chat, each message in a task of its own.  A handler runs without   *)
(* interruption up to an `await client.send_message(...)`, where it is     *)
(* suspended and other messages are handled.  StopPropagation ends the     *)
(* dispatch of the message; any other exception of a handler is logged by  *)
(* the dispatcher, which goes on with the next handler.                    *)
(***************************************************************************)
EXTENDS Integers, Sequences, FiniteSets, TLC

(* ------------------------------ bounds -------------------------------- *)
\* pipeline instances begun in a behaviour
MaxBegins == 2
\* messages of the second agent whose handling is suspended at one time
MaxTasks == 2
\* instances begun in a behaviour of the BNB chain taken alone
MaxBnbBegins == 3
\* hyperlinks of a message given to extract_ca
MaxUrls == 2
\* words of a hyperlink's URL and of a raw text given to extract_ca
MaxWords == 2

(* --------------------- peers (main.py:47-57) -------------------------- *)
soul_scanner_bot_username == "soul_scanner_bot"
phanes_bot_username == "PhanesRedBot"
sol_target_group == "sol_target_group"
bnb_target_group == "bnb_target_group"

(* ------------------------- message contents --------------------------- *)
\* A text is a sequence of tokens.  S1, S2 are base58 strings of 32..44
\* characters that decode to a public key, J is one that does not, E1, E2
\* are 0x + 40 hex digits, w is any other word, SP is white space and
\* FIRE, COIN are the two marker glyphs.
SolanaKeys == {"S1", "S2"}
Base58Words == SolanaKeys \cup {"J"}
EvmWords == {"E1", "E2"}
Tokens == Base58Words \cup EvmWords \cup {"w", "SP", "FIRE", "COIN"}
None == "None"

\* pattern.findall(text): the matches, left to right
solana_address_pattern(text) == SelectSeq(text, LAMBDA t : t \in Base58Words)
evm_address_pattern(text) == SelectSeq(text, LAMBDA t : t \in EvmWords)

is_valid_solana_address(address) == address \in SolanaKeys

\* variant: the first match is returned without validation
FirstMatched(matches, is_bnb_channel) ==
    IF matches = << >> THEN None ELSE Head(matches)

\* the inner loop `for addr in matches` of extract_ca: the first match the
\* chain accepts
FirstAccepted(matches, is_bnb_channel) ==
    LET accepted == SelectSeq(matches, LAMBDA addr :
                        IF is_bnb_channel THEN TRUE
                        ELSE is_valid_solana_address(addr))
    IN  IF accepted = << >> THEN None ELSE Head(accepted)

Findall(text, is_bnb_channel) ==
    IF is_bnb_channel THEN evm_address_pattern(text)
    ELSE solana_address_pattern(text)

\* the loop over event.message.entities of extract_ca
RECURSIVE ScanEntities(_, _)
ScanEntities(entities, is_bnb_channel) ==
    IF entities = << >> THEN None
    ELSE LET entity == Head(entities)
             addr == IF entity.isTextUrl
                     THEN FirstAccepted(Findall(entity.url, is_bnb_channel),
                                        is_bnb_channel)
                     ELSE None
         IN  IF addr # None THEN addr
             ELSE ScanEntities(Tail(entities), is_bnb_channel)

extract_ca(event, is_bnb_channel) ==
    LET fromEntities == ScanEntities(event.entities, is_bnb_channel)
    IN  IF fromEntities # None THEN fromEntities
        ELSE FirstAccepted(Findall(event.raw_text, is_bnb_channel),
                           is_bnb_channel)

\* raw_text.strip()
RECURSIVE LStrip(_)
LStrip(text) ==
    IF text # << >> /\ Head(text) = "SP" THEN LStrip(Tail(text)) ELSE text

\* variant: the text is not tested for the glyph
StartsWithAnything(text, glyph) == TRUE

\* raw_text.strip().startswith(glyph)
StartsWith(text, glyph) ==
    LET s == LStrip(text) IN s # << >> /\ Head(s) = glyph

(* ------------------- the dictionary (main.py:65) ---------------------- *)
\* pending_ca_for_analysis is a Python dict: a sequence of entries in
\* insertion order with at most one entry per key.  id numbers the begin
\* that created the entry (history only, the program does not read it).
Keys(p) == { p[i].ca : i \in DOMAIN p }

IndexOf(p, ca) ==
    IF ca \in Keys(p) THEN CHOOSE i \in DOMAIN p : p[i].ca = ca ELSE 0

\* variant: the membership test never finds the key
InDictNever(p, ca) == FALSE

\* ca in d
InDict(p, ca) == ca \in Keys(p)

\* variant: every assignment adds an entry
DictSetAppend(p, ca, state, id) ==
    Append(p, [ca |-> ca, state |-> state, id |-> id])

\* d[ca] = state: in place if the key exists, else appended
DictSet(p, ca, state, id) ==
    IF ca \in Keys(p)
    THEN [ i \in DOMAIN p |->
             IF p[i].ca = ca THEN [p[i] EXCEPT !.state = state] ELSE p[i] ]
    ELSE Append(p, [ca |-> ca, state |-> state, id |-> id])

\* del d[ca]
DictDel(p, ca) == SelectSeq(p, LAMBDA e : e.ca # ca)

\* variant: the loop has no break, so the last matching entry is taken
FirstAtLast(p, wanted, text, byContent) ==
    LET hits == { i \in DOMAIN p :
                    /\ p[i].state = wanted
                    /\ byContent =>
                         \E k \in DOMAIN text : text[k] = p[i].ca }
    IN  IF hits = {} THEN 0
        ELSE CHOOSE i \in hits : \A j \in hits : i >= j

\* variant: the loop does not test the text of the message
FirstAtAnyText(p, wanted, text, byContent) ==
    LET hits == { i \in DOMAIN p : p[i].state = wanted }
    IN  IF hits = {} THEN 0
        ELSE CHOOSE i \in hits : \A j \in hits : i <= j

\* variant: the loop does not test the state of the entry
FirstAtAnyState(p, wanted, text, byContent) ==
    LET hits == { i \in DOMAIN p :
                    byContent => \E k \in DOMAIN text : text[k] = p[i].ca }
    IN  IF hits = {} THEN 0
        ELSE CHOOSE i \in hits : \A j \in hits : i <= j

\* for ca, state in d.items(): if state == wanted [and ca in text]: break
\* the index of the first such entry, 0 if there is none
FirstAt(p, wanted, text, byContent) ==
    LET hits == { i \in DOMAIN p :
                    /\ p[i].state = wanted
                    /\ byContent =>
                         \E k \in DOMAIN text : text[k] = p[i].ca }
    IN  IF hits = {} THEN 0
        ELSE CHOOSE i \in hits : \A j \in hits : i <= j

(* ------------------------------ state --------------------------------- *)
VARIABLES
    pending,      \* pending_ca_for_analysis
    tasks,        \* handler invocations suspended at an await
    out,          \* out[id]: the send_message calls made for instance id
    owedScanner,  \* owedScanner[ca]: addresses the scanner has not answered
    owedPhanes,   \* commands the second agent has not answered
    last          \* what the last step did (history only)

vars == << pending, tasks, out, owedScanner, owedPhanes, last >>

NoActs == << >>

Idle == [ kind |-> "init", h |-> None, res |-> None, ca |-> None, id |-> 0,
          ok |-> TRUE, acts |-> NoActs, done |-> TRUE, rm |-> << >>,
          seen |-> {}, text |-> << >>, lead |-> FALSE, marked |-> FALSE ]

Init ==
    /\ pending = << >>
    /\ tasks = {}
    /\ out = << >>
    /\ owedScanner = [ ca \in SolanaKeys |-> 0 ]
    /\ owedPhanes = 0
    /\ last = Idle

\* client.send_message(to, text) on behalf of instance id
Send(o, id, to, text) ==
    [ o EXCEPT ![id] = Append(@, [to |-> to, text |-> text]) ]

\* The agents are modelled in two ways.  When `answering` is FALSE their
\* chats carry any message at any time and the owed counters stay 0.  When
\* it is TRUE an agent writes exactly one message for every command that
\* reached it, and the counters hold the answers still to come.
Owed(n, answering, ok) == IF answering /\ ok THEN n + 1 ELSE n

(* ---------------- source handlers (main.py:156-177, 235-258) ---------- *)
Ids(p) == { p[i].id : i \in DOMAIN p }

\* history only: the entry created by begin id is given the instances that
\* were in the dictionary when it was created
Begun(p, id, older) ==
    [ i \in DOMAIN p |->
        IF p[i].id = id
        THEN [ ca |-> p[i].ca, state |-> p[i].state, id |-> id,
               older |-> older ]
        ELSE p[i] ]

\* sol_handler and bnb_handler are the same code up to the glyph, the
\* chain flag of extract_ca, the first state and the agent written to.
\* The send is the handler's last statement: its outcome changes nothing
\* in the program.
SourceHandler(name, event, ok, answering, limit, glyph, is_bnb_channel, state, peer) ==
    LET found_ca_to_send == extract_ca(event, is_bnb_channel)
        res == IF ~StartsWith(event.raw_text, glyph) THEN "NoMarker"
               ELSE IF found_ca_to_send = None THEN "NoAddress"
               ELSE IF InDict(pending, found_ca_to_send) THEN "AlreadyPending"
               ELSE "Begun"
        id == Len(out) + 1
    IN  /\ res = "Begun" => Len(out) < limit
        /\ res # "Begun" => ok
        /\ UNCHANGED tasks
        /\ IF res = "Begun"
           THEN /\ pending' = Begun(DictSet(pending, found_ca_to_send, state,
                                            id), id, Ids(pending))
                /\ out' = Send(Append(out, << >>), id, peer,
                               << found_ca_to_send >>)
                /\ IF is_bnb_channel
                   THEN /\ owedPhanes' = Owed(owedPhanes, answering, ok)
                        /\ UNCHANGED owedScanner
                   ELSE /\ owedScanner' =
                             [ owedScanner EXCEPT ![found_ca_to_send] =
                                 Owed(@, answering, ok) ]
                        /\ UNCHANGED owedPhanes
           ELSE UNCHANGED << pending, out, owedScanner, owedPhanes >>
        /\ last' = [ Idle EXCEPT !.kind = name, !.res = res,
                        !.ca = IF res = "NoMarker" THEN None
                               ELSE found_ca_to_send,
                        !.id = IF res = "Begun" THEN id ELSE 0,
                        !.ok = ok,
                        !.lead = ( /\ event.raw_text # << >>
                                   /\ Head(event.raw_text) = glyph ),
                        !.marked = ( /\ LStrip(event.raw_text) # << >>
                                     /\ Head(LStrip(event.raw_text)) = glyph ) ]

sol_handler(event, ok, answering, limit) ==
    SourceHandler("sol_handler", event, ok, answering, limit, "FIRE", FALSE,
                  "a_soul_scanner", soul_scanner_bot_username)

\* variant: the BNB chain begins like the Solana chain, with the scanner
bnb_handler_by_scanner(event, ok, answering, limit) ==
    SourceHandler("bnb_handler", event, ok, answering, limit, "COIN", TRUE,
                  "a_soul_scanner", soul_scanner_bot_username)

bnb_handler(event, ok, answering, limit) ==
    SourceHandler("bnb_handler", event, ok, answering, limit, "COIN", TRUE,
                  "b_waiting_for_response", phanes_bot_username)

(* ------------- scanner reply handler (main.py:179-191) ---------------- *)
\* variant: the scanner's handler sends the second command
ThCommandTt(found_ca) == << "/tt", found_ca >>

\* f"/th {found_ca}"
ThCommand(found_ca) == << "/th", found_ca >>

\* The send is the handler's last statement: its outcome changes nothing
\* in the program, only whether the second agent owes an answer.
sol_soul_scanner_handler(event, ok, answering) ==
    LET i == FirstAt(pending, "a_soul_scanner", event.raw_text, TRUE)
        found_ca == IF i = 0 THEN None ELSE pending[i].ca
        id == IF i = 0 THEN 0 ELSE pending[i].id
    IN  /\ i = 0 => ok
        /\ UNCHANGED tasks
        /\ IF i = 0
           THEN UNCHANGED << pending, out, owedPhanes >>
           ELSE /\ pending' = DictSet(pending, found_ca,
                                      "a_waiting_for_th_response", id)
                /\ out' = Send(out, id, phanes_bot_username,
                               ThCommand(found_ca))
                /\ owedPhanes' = Owed(owedPhanes, answering, ok)
        /\ last' = [ Idle EXCEPT !.kind = "sol_soul_scanner_handler",
                        !.res = IF i = 0 THEN "NotFound" ELSE "Advanced",
                        !.ca = found_ca, !.id = id, !.ok = ok,
                        !.text = event.raw_text ]

(* ------- handlers of the second agent's chat (main.py:193-299) -------- *)
\* Each handler is given the dictionary, the send log, the message ev being
\* dispatched and the steps already taken for that message.  Of a message
\* only history is kept: its slot among the suspended ones and the
\* instances that were waiting for the second agent's first reply when it
\* arrived.
\* It returns them as it leaves them when it returns or is suspended; susp
\* holds the suspended invocation.
Returned(p, o, acts) ==
    [ pending |-> p, out |-> o, acts |-> acts, susp |-> {} ]

\* variant: the loop has no break and the state is set inside it, so every
\* entry at `from` is set to `to`; the command goes to the first one
StepOneHandlerAll(name, from, to, p, o, ev, acts) ==
    LET i == FirstAt(p, from, << >>, FALSE)
    IN  IF i = 0 THEN Returned(p, o, acts)
        ELSE LET found_ca == p[i].ca
                 id == p[i].id
                 acts2 == Append(acts, [h |-> name, ca |-> found_ca, id |-> id,
                                        ok |-> TRUE])
             IN  [ pending |-> [ j \in DOMAIN p |->
                                   IF p[j].state = from
                                   THEN [p[j] EXCEPT !.state = to] ELSE p[j] ],
                   out |-> Send(o, id, phanes_bot_username, << "/tt", found_ca >>),
                   acts |-> acts2,
                   susp |-> { [slot |-> ev.slot, seen |-> ev.seen, pc |-> name,
                                ca |-> found_ca, id |-> id, acts |-> acts2] } ]

\* STEP A3 / B2: the first entry at `from` is set to `to`, then the /tt
\* command is sent
StepOneHandler(name, from, to, p, o, ev, acts) ==
    LET i == FirstAt(p, from, << >>, FALSE)
    IN  IF i = 0 THEN Returned(p, o, acts)
        ELSE LET found_ca == p[i].ca
                 id == p[i].id
                 acts2 == Append(acts, [h |-> name, ca |-> found_ca, id |-> id,
                                        ok |-> TRUE])
             IN  [ pending |-> DictSet(p, found_ca, to, id),
                   out |-> Send(o, id, phanes_bot_username, << "/tt", found_ca >>),
                   acts |-> acts2,
                   susp |-> { [slot |-> ev.slot, seen |-> ev.seen, pc |-> name,
                                ca |-> found_ca, id |-> id, acts |-> acts2] } ]

\* STEP A4 / B3 up to the await: the first entry at `at` is sent to the
\* target group; the entry is left as it is
TerminalHandler(name, at, group, p, o, ev, acts) ==
    LET i == FirstAt(p, at, << >>, FALSE)
    IN  IF i = 0 THEN Returned(p, o, acts)
        ELSE LET found_ca == p[i].ca
                 id == p[i].id
                 acts2 == Append(acts, [h |-> name, ca |-> found_ca, id |-> id,
                                        ok |-> TRUE])
             IN  [ pending |-> p,
                   out |-> Send(o, id, group, << found_ca >>),
                   acts |-> acts2,
                   susp |-> { [slot |-> ev.slot, seen |-> ev.seen, pc |-> name,
                                ca |-> found_ca, id |-> id, acts |-> acts2] } ]

sol_phanes_th_response_handler(p, o, ev, acts) ==
    StepOneHandler("sol_phanes_th_response_handler",
                   "a_waiting_for_th_response", "a_waiting_for_tt_response",
                   p, o, ev, acts)

sol_phanes_tt_response_handler(p, o, ev, acts) ==
    TerminalHandler("sol_phanes_tt_response_handler",
                    "a_waiting_for_tt_response", sol_target_group,
                    p, o, ev, acts)

bnb_phanes_initial_response_handler(p, o, ev, acts) ==
    StepOneHandler("bnb_phanes_initial_response_handler",
                   "b_waiting_for_response", "b_waiting_for_tt_response",
                   p, o, ev, acts)

\* variant: the BNB terminal handler forwards to the Solana group
bnb_phanes_tt_response_handler_sol_group(p, o, ev, acts) ==
    TerminalHandler("bnb_phanes_tt_response_handler",
                    "b_waiting_for_tt_response", sol_target_group,
                    p, o, ev, acts)

bnb_phanes_tt_response_handler(p, o, ev, acts) ==
    TerminalHandler("bnb_phanes_tt_response_handler",
                    "b_waiting_for_tt_response", bnb_target_group,
                    p, o, ev, acts)

\* the handlers of events.NewMessage(chats=phanes_bot_username), in the
\* order of their registration
PhanesHandlers ==
    << "sol_phanes_th_response_handler", "sol_phanes_tt_response_handler",
       "bnb_phanes_initial_response_handler",
       "bnb_phanes_tt_response_handler" >>

StepOneHandlers == { "sol_phanes_th_response_handler",
                     "bnb_phanes_initial_response_handler" }
TerminalHandlers == { "sol_phanes_tt_response_handler",
                      "bnb_phanes_tt_response_handler" }

StepOneStates == { "a_waiting_for_th_response", "b_waiting_for_response" }
StepTwoStates == { "a_waiting_for_tt_response", "b_waiting_for_tt_response" }

HandlerIndex(name) ==
    CHOOSE k \in DOMAIN PhanesHandlers : PhanesHandlers[k] = name

RunHandler(k, p, o, ev, acts) ==
    CASE k = 1 -> sol_phanes_th_response_handler(p, o, ev, acts)
      [] k = 2 -> sol_phanes_tt_response_handler(p, o, ev, acts)
      [] k = 3 -> bnb_phanes_initial_response_handler(p, o, ev, acts)
      [] k = 4 -> bnb_phanes_tt_response_handler(p, o, ev, acts)

\* The dispatcher's loop from the k-th handler on: a handler that returns
\* without awaiting is followed at once by the next one; the loop is left
\* when a handler is suspended or none remains.
RECURSIVE Dispatch(_, _, _, _, _)
Dispatch(k, p, o, ev, acts) ==
    IF k > Len(PhanesHandlers) THEN Returned(p, o, acts)
    ELSE LET r == RunHandler(k, p, o, ev, acts)
         IN  IF r.susp # {} THEN r
             ELSE Dispatch(k + 1, r.pending, r.out, ev, r.acts)

FreeSlots == (1 .. MaxTasks) \ { t.slot : t \in tasks }

\* a message arrives in the second agent's chat
PhanesMessage ==
    LET slot == IF FreeSlots = {} THEN 0
                ELSE CHOOSE s \in FreeSlots : \A s2 \in FreeSlots : s <= s2
        seen == { pending[i].id : i \in { j \in DOMAIN pending :
                      pending[j].state \in StepOneStates } }
        r == Dispatch(1, pending, out, [slot |-> slot, seen |-> seen], NoActs)
    IN  /\ r.susp # {} => FreeSlots # {}
        /\ pending' = r.pending
        /\ out' = r.out
        /\ tasks' = tasks \cup r.susp
        /\ last' = [ Idle EXCEPT !.kind = "phanes", !.seen = seen,
                        !.acts = r.acts, !.done = (r.susp = {}) ]

\* variant: the terminal handler deletes the key inside the try block, after
\* the send, so that a send that raises skips the deletion
AfterAwaitKeepOnFailure(t, ok, p) ==
    IF t.pc \in StepOneHandlers
    THEN [ pending |-> p, stop |-> ok, rm |-> << >> ]
    ELSE [ pending |-> IF ok /\ t.ca \in Keys(p) THEN DictDel(p, t.ca) ELSE p,
           stop |-> FALSE,
           rm |-> IF ok /\ t.ca \in Keys(p)
                  THEN << p[IndexOf(p, t.ca)] >> ELSE << >> ]

\* The rest of a handler after its await.  A step-one handler raises
\* StopPropagation when the send returned; when the send raised, the
\* exception leaves the handler and the dispatcher goes on.  A terminal
\* handler catches the exception and deletes the key if it is (still or
\* again) in the dictionary.
AfterAwait(t, ok, p) ==
    IF t.pc \in StepOneHandlers
    THEN [ pending |-> p, stop |-> ok, rm |-> << >> ]
    ELSE [ pending |-> IF t.ca \in Keys(p) THEN DictDel(p, t.ca) ELSE p,
           stop |-> FALSE,
           rm |-> IF t.ca \in Keys(p) THEN << p[IndexOf(p, t.ca)] >> ELSE << >> ]

\* a suspended handler is resumed with the outcome of its send
Resume(t, ok, answering) ==
    LET a == AfterAwait(t, ok, pending)
        \* history only: the outcome of a command send is noted on the step
        acts == IF t.pc \in StepOneHandlers
                THEN [ t.acts EXCEPT ![Len(t.acts)].ok = ok ] ELSE t.acts
        r == IF a.stop THEN Returned(a.pending, out, acts)
             ELSE Dispatch(HandlerIndex(t.pc) + 1, a.pending, out,
                           [slot |-> t.slot, seen |-> t.seen], acts)
    IN  /\ t \in tasks
        /\ pending' = r.pending
        /\ out' = r.out
        /\ tasks' = (tasks \ {t}) \cup r.susp
        /\ owedPhanes' = IF t.pc \in StepOneHandlers
                         THEN Owed(owedPhanes, answering, ok) ELSE owedPhanes
        /\ UNCHANGED owedScanner
        /\ last' = [ Idle EXCEPT !.kind = "resume", !.h = t.pc, !.ca = t.ca,
                        !.id = t.id, !.ok = ok, !.acts = r.acts,
                        !.done = (r.susp = {}), !.rm = a.rm,
                        !.seen = t.seen ]

(* --------------------------- environment ------------------------------ *)
Words == { "S1", "S2", "J", "E1", "E2" }

\* posts of the source channels: a glyph and a word; a word alone; white
\* space, a glyph and a word; a glyph and a word with a hyperlink on a
\* second word
SourceMessages ==
    { [ entities |-> << >>, raw_text |-> << g, a >> ] :
          g \in { "FIRE", "COIN" }, a \in Words }
    \cup { [ entities |-> << >>, raw_text |-> << "S1" >> ],
           [ entities |-> << >>, raw_text |-> << "SP", "FIRE", "S1" >> ] }
    \cup { [ entities |-> << [ isTextUrl |-> TRUE, url |-> << m[1] >> ] >>,
             raw_text |-> << m[2], m[3] >> ] :
          m \in { << "S2", "FIRE", "S1" >>, << "J", "FIRE", "S1" >>,
                  << "E2", "COIN", "E1" >> } }

\* messages in the scanner agent's chat
ScannerMessages ==
    { [ entities |-> << >>, raw_text |-> t ] :
          t \in { << "w" >>, << "S1" >>, << "S2" >>, << "S2", "S1" >> } }

\* a post in the Solana source channel
SolSource(oks, answering) ==
    \E event \in SourceMessages, ok \in oks :
        sol_handler(event, ok, answering, MaxBegins)

\* a post in the BNB source channel
BnbSource(oks, answering) ==
    \E event \in SourceMessages, ok \in oks :
        bnb_handler(event, ok, answering, MaxBegins)

\* the scanner agent answers an address it was sent
ScannerAnswer(oks) ==
    \E ca \in SolanaKeys, ok \in oks :
        /\ owedScanner[ca] > 0
        /\ owedScanner' = [ owedScanner EXCEPT ![ca] = @ - 1 ]
        /\ sol_soul_scanner_handler(
               [ entities |-> << >>, raw_text |-> << ca >> ], ok, TRUE)

\* any message in the scanner agent's chat
ScannerOther(oks) ==
    \E event \in ScannerMessages, ok \in oks :
        /\ UNCHANGED owedScanner
        /\ sol_soul_scanner_handler(event, ok, FALSE)

\* the second agent answers a command
PhanesAnswer ==
    /\ owedPhanes > 0
    /\ owedPhanes' = owedPhanes - 1
    /\ UNCHANGED owedScanner
    /\ PhanesMessage

\* any message in the second agent's chat
PhanesOther ==
    /\ UNCHANGED << owedScanner, owedPhanes >>
    /\ PhanesMessage

\* a pending send returns or raises
SendDone(oks, answering) ==
    \E t \in tasks, ok \in oks : Resume(t, ok, answering)

\* any order of posts, agent messages and send outcomes
Next ==
    \/ SolSource(BOOLEAN, FALSE)
    \/ BnbSource(BOOLEAN, FALSE)
    \/ ScannerOther(BOOLEAN)
    \/ PhanesOther
    \/ SendDone(BOOLEAN, FALSE)

Spec == Init /\ [][Next]_vars

\* every send succeeds and the agents answer each command once
AnsweringNext ==
    \/ SolSource({TRUE}, TRUE)
    \/ BnbSource({TRUE}, TRUE)
    \/ ScannerAnswer({TRUE})
    \/ PhanesAnswer
    \/ SendDone({TRUE}, TRUE)

AnsweringSpec ==
    /\ Init
    /\ [][AnsweringNext]_vars
    /\ WF_vars(ScannerAnswer({TRUE}))
    /\ WF_vars(PhanesAnswer)
    /\ WF_vars(SendDone({TRUE}, TRUE))

(* ------------------------ the BNB chain alone -------------------------- *)
\* posts of the BNB channel that name an address
BnbMessages ==
    { [ entities |-> << >>, raw_text |-> << "COIN", a >> ] : a \in EvmWords }

BnbPost ==
    \E event \in BnbMessages, ok \in BOOLEAN :
        bnb_handler(event, ok, FALSE, MaxBnbBegins)

\* any order of BNB posts, messages of the second agent and send outcomes
BnbNext ==
    \/ BnbPost
    \/ PhanesOther
    \/ SendDone(BOOLEAN, FALSE)

BnbSpec == Init /\ [][BnbNext]_vars

(* ----------------------- extract_ca taken alone ----------------------- *)
\* extract_ca is given any message of at most MaxUrls entities, each a
\* hyperlink with a URL of at most MaxWords words or an entity of another
\* type, and a raw text of at most MaxWords words, on either channel.
ExtractWords == { "S1", "S2", "J", "E1", "E2" }

Texts == UNION { [ 1 .. n -> ExtractWords ] : n \in 0 .. MaxWords }

Entities ==
    { [ isTextUrl |-> TRUE, url |-> u ] : u \in Texts }
    \cup { [ isTextUrl |-> FALSE, url |-> << >> ] }

ExtractEvents ==
    { [ entities |-> e, raw_text |-> t ] :
          e \in UNION { [ 1 .. n -> Entities ] : n \in 0 .. MaxUrls },
          t \in Texts }

ExtractInit ==
    /\ pending = << >>
    /\ tasks = {}
    /\ out = << >>
    /\ owedScanner = [ ca \in SolanaKeys |-> 0 ]
    /\ owedPhanes = 0
    /\ \E event \in ExtractEvents, is_bnb_channel \in BOOLEAN :
          last = [ kind |-> "given", event |-> event,
                   is_bnb_channel |-> is_bnb_channel, res |-> None ]

ExtractCa ==
    /\ last.kind = "given"
    /\ last' = [ last EXCEPT !.kind = "extracted",
                     !.res = extract_ca(last.event, last.is_bnb_channel) ]
    /\ UNCHANGED << pending, tasks, out, owedScanner, owedPhanes >>

ExtractSpec == ExtractInit /\ [][ExtractCa]_vars

(* ============================== claims ================================ *)
\* the stage of instance id: the state of its entry, "removed" once it has
\* no entry
StageOf(p, id) ==
    IF id \in Ids(p) THEN p[CHOOSE i \in DOMAIN p : p[i].id = id].state
    ELSE "removed"

\* the fixed stage sequences of the two chains
NextStage(state) ==
    CASE state = "a_soul_scanner" -> "a_waiting_for_th_response"
      [] state = "a_waiting_for_th_response" -> "a_waiting_for_tt_response"
      [] state = "a_waiting_for_tt_response" -> "removed"
      [] state = "b_waiting_for_response" -> "b_waiting_for_tt_response"
      [] state = "b_waiting_for_tt_response" -> "removed"
      [] OTHER -> "none"

\* the forwards of instance id: the sends to a target group
Forwards(o, id) ==
    SelectSeq(o[id], LAMBDA m : m.to \in { sol_target_group, bnb_target_group })

\* the steps taken for the messages being handled or just handled
ActsOfMessages == { t.acts : t \in tasks } \cup { last.acts }

Acted(acts, h) == \E k \in DOMAIN acts : acts[k].h = h

\* C1: whenever the stage of an instance changes, the new stage is the
\* next one of its chain's sequence, removal being the stage after the
\* second agent's second reply: no stage is skipped and none is gone back
\* to.
C1_StageOnlyAdvancesByOne ==
    [][ \A id \in 1 .. Len(out) :
            StageOf(pending', id) # StageOf(pending, id)
                => StageOf(pending', id) = NextStage(StageOf(pending, id)) ]_vars

\* C2: the store never holds two instances of one address, whatever the
\* chains of the two.
C2_OneInstancePerAddress ==
    \A i, j \in DOMAIN pending :
        pending[i].ca = pending[j].ca => i = j

\* C2 witness: an instance of each chain is in the store, and a post
\* naming the address of one of them has just been handled.
C2_Witness ==
    /\ \E i, j \in DOMAIN pending :
          /\ pending[i].state \in { "a_soul_scanner", "a_waiting_for_th_response",
                                    "a_waiting_for_tt_response" }
          /\ pending[j].state \in { "b_waiting_for_response",
                                    "b_waiting_for_tt_response" }
    /\ last.kind \in { "sol_handler", "bnb_handler" }
    /\ last.ca \in Keys(pending)
    /\ last.res = "AlreadyPending"

\* C3: for one message of the second agent, the step-one handler and the
\* terminal handler of a chain do not both act.
C3_OneStepPerChainPerMessage ==
    \A acts \in ActsOfMessages :
        /\ ~ ( /\ Acted(acts, "sol_phanes_th_response_handler")
               /\ Acted(acts, "sol_phanes_tt_response_handler") )
        /\ ~ ( /\ Acted(acts, "bnb_phanes_initial_response_handler")
               /\ Acted(acts, "bnb_phanes_tt_response_handler") )

\* C4: no instance is forwarded to its target group more than once.
C4_ForwardedAtMostOnce ==
    \A id \in 1 .. Len(out) : Len(Forwards(out, id)) <= 1

\* C5: an entry leaves the store only from the state after the second
\* agent's second reply, and by the resumed terminal handler that
\* forwarded that very instance.
C5_RemovedOnlyByItsForward ==
    [][ \A i \in DOMAIN pending :
            pending[i].id \notin Ids(pending')
                => /\ pending[i].state \in StepTwoStates
                   /\ last'.kind = "resume"
                   /\ last'.h \in TerminalHandlers
                   /\ last'.id = pending[i].id ]_vars

StepOneHandlerOf(state) ==
    IF state = "a_waiting_for_th_response"
    THEN "sol_phanes_th_response_handler"
    ELSE "bnb_phanes_initial_response_handler"

\* C6: when the handling of a message of the second agent has ended, every
\* instance that has been waiting for the agent's first reply since before
\* the message arrived belongs to a chain of which this message advanced
\* an instance.
C6_WaitingChainIsAdvanced ==
    (last.kind \in { "phanes", "resume" } /\ last.done) =>
        \A i \in DOMAIN pending :
            (pending[i].id \in last.seen /\ pending[i].state \in StepOneStates)
                => Acted(last.acts, StepOneHandlerOf(pending[i].state))

\* C7: when every send has succeeded, every command has been answered once
\* and every handler has finished, no instance is left in the store.
C7_NoneLeftWhenAllAnswered ==
    ( /\ tasks = {}
      /\ owedPhanes = 0
      /\ \A ca \in SolanaKeys : owedScanner[ca] = 0 )
        => pending = << >>

\* C8: when a terminal handler is resumed, with the forward delivered or
\* failed, the store holds no entry of its address afterwards and the
\* instance is not forwarded again by that step.
C8_RemovedWhateverTheForward ==
    [][ \A t \in tasks :
            (t.pc \in TerminalHandlers /\ t \notin tasks')
                => /\ t.ca \notin Keys(pending')
                   /\ Forwards(out', t.id) = Forwards(out, t.id) ]_vars

\* C8 witness: a forward has just failed and its handler removed the entry.
C8_Witness ==
    /\ last.kind = "resume"
    /\ last.h \in TerminalHandlers
    /\ ~last.ok
    /\ last.rm # << >>
    /\ last.rm[1].state \in StepTwoStates
    /\ last.ca \notin Keys(pending)

AtTh(p) == { i \in DOMAIN p : p[i].state = "a_waiting_for_th_response" }

\* the /tt commands sent for Solana instance id
SolTtCommands(o, id) ==
    SelectSeq(o[id], LAMBDA m : m.text[1] = "/tt" /\ m.text[2] \in SolanaKeys)

TimesActed(acts, h) == Cardinality({ k \in DOMAIN acts : acts[k].h = h })

\* C9: a message of the second agent that arrives while two or more Solana
\* instances wait for the agent's first reply moves exactly one of them to
\* the next state and sends one /tt command, for that one; the others stay
\* as they are, and the Solana step-one handler acts once at most for a
\* message.
C9_ExactlyOneOfSeveralAdvanced ==
    [][ /\ (last'.kind = "phanes" /\ Cardinality(AtTh(pending)) >= 2) =>
              /\ DOMAIN pending' = DOMAIN pending
              /\ Cardinality(AtTh(pending) \ AtTh(pending')) = 1
              /\ \A i \in AtTh(pending) :
                    \/ pending'[i] = pending[i]
                    \/ /\ pending'[i] = [ pending[i] EXCEPT
                                  !.state = "a_waiting_for_tt_response" ]
                       /\ Len(SolTtCommands(out', pending[i].id))
                              = Len(SolTtCommands(out, pending[i].id)) + 1
                       /\ \A id \in (1 .. Len(out)) \ { pending[i].id } :
                              SolTtCommands(out', id) = SolTtCommands(out, id)
        /\ \A acts \in ActsOfMessages' :
              TimesActed(acts, "sol_phanes_th_response_handler") <= 1 ]_vars

\* C9 witness: a message has just advanced one Solana instance while another
\* one is still waiting for the first reply.
C9_Witness ==
    /\ last.kind = "phanes"
    /\ Len(last.acts) = 1
    /\ last.acts[1].h = "sol_phanes_th_response_handler"
    /\ StageOf(pending, last.acts[1].id) = "a_waiting_for_tt_response"
    /\ AtTh(pending) # {}

\* C10: a post of a source channel whose extracted address has an entry in
\* the store changes no entry, suspends nothing and sends nothing.
C10_DuplicateIsSkipped ==
    [][ ( /\ last'.kind \in { "sol_handler", "bnb_handler" }
          /\ last'.ca \in Keys(pending) )
            => /\ pending' = pending
               /\ tasks' = tasks
               /\ out' = out ]_vars

\* C10 witness: a post naming an address whose instance is past its first
\* state has just been skipped.
C10_Witness ==
    /\ last.kind \in { "sol_handler", "bnb_handler" }
    /\ last.res = "AlreadyPending"
    /\ \E i \in DOMAIN pending :
          /\ pending[i].ca = last.ca
          /\ pending[i].state \in StepTwoStates

SourceKinds == { "sol_handler", "bnb_handler" }

Named(text) == { text[k] : k \in DOMAIN text }

\* C12: a message of the scanner that names the address of no entry in the
\* first Solana state, and a message of the second agent that arrives when
\* no entry waits for its first or second reply, change no entry, suspend
\* nothing and send nothing.
C12_UnawaitedReplyIsSkipped ==
    [][ /\ ( /\ last'.kind = "sol_soul_scanner_handler"
             /\ \A i \in DOMAIN pending :
                   pending[i].state = "a_soul_scanner"
                       => pending[i].ca \notin Named(last'.text) )
              => /\ pending' = pending
                 /\ tasks' = tasks
                 /\ out' = out
        /\ ( /\ last'.kind = "phanes"
             /\ \A i \in DOMAIN pending :
                   pending[i].state \notin StepOneStates \cup StepTwoStates )
              => /\ pending' = pending
                 /\ tasks' = tasks
                 /\ out' = out ]_vars

\* C12 witness: the scanner has just named an address while the only
\* entries in the first Solana state are of other addresses.
C12_Witness ==
    /\ last.kind = "sol_soul_scanner_handler"
    /\ Named(last.text) \cap SolanaKeys # {}
    /\ \E i \in DOMAIN pending : pending[i].state = "a_soul_scanner"
    /\ \A i \in DOMAIN pending :
          pending[i].state = "a_soul_scanner"
              => pending[i].ca \notin Named(last.text)
    /\ last.id = 0

\* C13: an entry goes from the first Solana state to the state of waiting
\* for the second agent's first reply only in a step of the scanner's
\* handler on a message that names its address; that step changes no other
\* entry and sends one message, "/th" with that address, to the second
\* agent.
C13_AdvancedOnlyWhenNamed ==
    [][ \A i \in DOMAIN pending :
            ( /\ pending[i].state = "a_soul_scanner"
              /\ StageOf(pending', pending[i].id) = "a_waiting_for_th_response" )
                => /\ last'.kind = "sol_soul_scanner_handler"
                   /\ pending[i].ca \in Named(last'.text)
                   /\ pending' = [ pending EXCEPT
                                     ![i].state = "a_waiting_for_th_response" ]
                   /\ out' = [ out EXCEPT ![pending[i].id] =
                                 Append(@, [ to |-> phanes_bot_username,
                                             text |-> << "/th", pending[i].ca >> ]) ]
                   /\ tasks' = tasks ]_vars

\* C13 witness: the scanner has just named two addresses that both had an
\* entry in the first Solana state; one of them was advanced and the other
\* one was left.
C13_Witness ==
    /\ last.kind = "sol_soul_scanner_handler"
    /\ Cardinality(Named(last.text) \cap Keys(pending)) = 2
    /\ StageOf(pending, last.id) = "a_waiting_for_th_response"
    /\ \E i \in DOMAIN pending :
          /\ pending[i].state = "a_soul_scanner"
          /\ pending[i].ca \in Named(last.text)

\* the address a sent text carries: its last token
CarriedBy(text) == text[Len(text)]

\* C14: a begin on the Solana channel puts the instance in the first Solana
\* state and sends its address to the scanner; a begin on the BNB channel
\* puts it in the state of waiting for the second agent's first reply and
\* sends its address to the second agent; no entry of an EVM address is in
\* the first Solana state and nothing that carries an EVM address is sent
\* to the scanner.
C14_ChainsBeginAtTheirOwnAgent ==
    /\ (last.kind = "sol_handler" /\ last.id # 0) =>
          /\ StageOf(pending, last.id) = "a_soul_scanner"
          /\ last.ca \in SolanaKeys
          /\ out[last.id] = << [ to |-> soul_scanner_bot_username,
                                 text |-> << last.ca >> ] >>
    /\ (last.kind = "bnb_handler" /\ last.id # 0) =>
          /\ StageOf(pending, last.id) = "b_waiting_for_response"
          /\ last.ca \in EvmWords
          /\ out[last.id] = << [ to |-> phanes_bot_username,
                                 text |-> << last.ca >> ] >>
    /\ \A i \in DOMAIN pending :
          pending[i].ca \in EvmWords => pending[i].state # "a_soul_scanner"
    /\ \A id \in DOMAIN out : \A k \in DOMAIN out[id] :
          out[id][k].to = soul_scanner_bot_username
              => CarriedBy(out[id][k].text) \notin EvmWords

\* C14 witness: an instance has just been begun on the BNB channel while a
\* Solana instance is in the store.
C14_Witness ==
    /\ last.kind = "bnb_handler"
    /\ last.id # 0
    /\ StageOf(pending, last.id) = "b_waiting_for_response"
    /\ \E i \in DOMAIN pending : pending[i].ca \in SolanaKeys

SolanaStates == { "a_soul_scanner", "a_waiting_for_th_response",
                  "a_waiting_for_tt_response" }
BnbStates == { "b_waiting_for_response", "b_waiting_for_tt_response" }

\* C15: what is sent to the Solana group carries a Solana address and was
\* sent for an instance begun on the Solana channel, what is sent to the BNB
\* group carries an EVM address and was sent for an instance begun on the
\* BNB channel; an entry of a Solana address is in a Solana state and an
\* entry of an EVM address is in a BNB state.
C15_ForwardedToOwnGroup ==
    /\ \A id \in DOMAIN out : \A k \in DOMAIN out[id] :
          /\ out[id][k].to = sol_target_group
                => /\ CarriedBy(out[id][k].text) \in SolanaKeys
                   /\ out[id][1].to = soul_scanner_bot_username
          /\ out[id][k].to = bnb_target_group
                => /\ CarriedBy(out[id][k].text) \in EvmWords
                   /\ out[id][1].to = phanes_bot_username
    /\ \A i \in DOMAIN pending :
          /\ pending[i].ca \in SolanaKeys => pending[i].state \in SolanaStates
          /\ pending[i].ca \in EvmWords => pending[i].state \in BnbStates

\* C15 witness: an instance of each chain has been forwarded.
C15_Witness ==
    \E x, y \in DOMAIN out :
        /\ \E k \in DOMAIN out[x] : out[x][k].to = sol_target_group
        /\ \E k \in DOMAIN out[y] : out[y][k].to = bnb_target_group

\* the commands sent for instance id: the sends to the two agents
Commands(o, id) ==
    SelectSeq(o[id], LAMBDA m :
        m.to \in { soul_scanner_bot_username, phanes_bot_username })

\* C16: when the send of a begin or of an advance raises, the entry is in
\* the state the step set and the command has been sent once; no command
\* is sent twice for an instance; and the message whose command send raised
\* does nothing more to that instance: it neither forwards nor removes it.
C16_FailedCommandKeepsTransition ==
    /\ (last.kind \in SourceKinds /\ last.id # 0 /\ ~last.ok) =>
          /\ StageOf(pending, last.id) =
                 IF last.kind = "sol_handler" THEN "a_soul_scanner"
                 ELSE "b_waiting_for_response"
          /\ Len(out[last.id]) = 1
    /\ (last.kind = "sol_soul_scanner_handler" /\ last.id # 0 /\ ~last.ok) =>
          /\ StageOf(pending, last.id) = "a_waiting_for_th_response"
          /\ Len(out[last.id]) = 2
    /\ \A id \in DOMAIN out : \A j, k \in DOMAIN Commands(out, id) :
          Commands(out, id)[j] = Commands(out, id)[k] => j = k
    /\ \A acts \in ActsOfMessages : \A j, k \in DOMAIN acts :
          (acts[j].h \in StepOneHandlers /\ ~acts[j].ok /\ k # j)
              => acts[k].id # acts[j].id

\* the words of a message in scan order: the URLs of its hyperlinks, in the
\* order of the entities, then the raw text
RECURSIVE ScanOrder(_, _)
ScanOrder(entities, raw_text) ==
    IF entities = << >> THEN raw_text
    ELSE ( IF Head(entities).isTextUrl THEN Head(entities).url ELSE << >> )
             \o ScanOrder(Tail(entities), raw_text)

\* the chain's validator
Valid(word, is_bnb_channel) ==
    IF is_bnb_channel THEN word \in EvmWords ELSE word \in SolanaKeys

\* C17: extract_ca returns the first word, in scan order, that the chain's
\* validator accepts, and None exactly when there is no such word.
C17_FirstValidInScanOrder ==
    last.kind = "extracted" =>
        LET words == ScanOrder(last.event.entities, last.event.raw_text)
            valid == { k \in DOMAIN words :
                          Valid(words[k], last.is_bnb_channel) }
        IN  IF valid = {} THEN last.res = None
            ELSE \E k \in valid :
                    /\ \A j \in valid : k <= j
                    /\ last.res = words[k]

\* C17 witness: on the Solana channel the first hyperlink holds only a word
\* that does not decode, the second one holds such a word before a key,
\* and the raw text holds another key; the key of the second hyperlink has
\* been returned.
C17_Witness ==
    /\ last.kind = "extracted"
    /\ ~last.is_bnb_channel
    /\ last.event.entities = << [ isTextUrl |-> TRUE, url |-> << "J" >> ],
                                [ isTextUrl |-> TRUE, url |-> << "J", "S2" >> ] >>
    /\ last.event.raw_text = << "S1" >>
    /\ last.res = "S2"

\* the sends of a chain's pipeline for address ca, in order
Pipeline(ca) ==
    IF ca \in SolanaKeys
    THEN << [ to |-> soul_scanner_bot_username, text |-> << ca >> ],
            [ to |-> phanes_bot_username, text |-> << "/th", ca >> ],
            [ to |-> phanes_bot_username, text |-> << "/tt", ca >> ],
            [ to |-> sol_target_group, text |-> << ca >> ] >>
    ELSE << [ to |-> phanes_bot_username, text |-> << ca >> ],
            [ to |-> phanes_bot_username, text |-> << "/tt", ca >> ],
            [ to |-> bnb_target_group, text |-> << ca >> ] >>

\* C19: the sends made for an instance are, in order, the sends of its
\* chain's pipeline for its address, none left out and none before its
\* turn; a send past the end of the pipeline can only be the forward again
\* (whether that happens is C4).  So no forward comes before the "/tt"
\* command of the instance.
C19_SentInPipelineOrder ==
    \A id \in DOMAIN out :
        LET expected == Pipeline(CarriedBy(out[id][1].text))
        IN  \A k \in DOMAIN out[id] :
                out[id][k] = expected[IF k < Len(expected) THEN k
                                      ELSE Len(expected)]

\* C19 witness: an instance of each chain has gone through all the sends of
\* its pipeline.
C19_Witness ==
    \E x, y \in DOMAIN out :
        /\ out[x] = Pipeline("S1")
        /\ out[y] = Pipeline("E1")

\* how far a BNB state is along its chain
BnbRank(state) ==
    CASE state = "b_waiting_for_response" -> 1
      [] state = "b_waiting_for_tt_response" -> 2
      [] OTHER -> 3

\* C20: for a BNB entry y and a BNB instance x that was in the store when
\* y was begun: while x is in the store y is not in a later state than x,
\* and if y has been forwarded then x has been forwarded.
C20_BnbForwardedInOrderBegun ==
    \A i \in DOMAIN pending : \A x \in pending[i].older :
        ( /\ pending[i].ca \in EvmWords
          /\ CarriedBy(out[x][1].text) \in EvmWords )
            => /\ x \in Ids(pending) =>
                     BnbRank(pending[i].state) <= BnbRank(StageOf(pending, x))
               /\ Forwards(out, pending[i].id) # << >>
                     => Forwards(out, x) # << >>

\* the instances that are in state `state`
IdsAt(p, state) == { p[i].id : i \in { j \in DOMAIN p : p[j].state = state } }

\* C21: an instance that a step of the second agent's handlers moves to
\* the next state, or forwards, is the one begun earliest of the instances
\* that were in its state; a state change leaves every entry at its place
\* in the store, and an address begun again is the newest instance.
C21_EarliestBegunIsSelected ==
    [][ /\ \A i \in DOMAIN pending :
              LET id == pending[i].id
                  state == pending[i].state
              IN  ( \/ ( /\ state \in StepOneStates
                         /\ StageOf(pending', id) = NextStage(state) )
                    \/ ( /\ state \in StepTwoStates
                         /\ Len(Forwards(out', id)) > Len(Forwards(out, id)) ) )
                      => \A other \in IdsAt(pending, state) : id <= other
        /\ \A i, j \in DOMAIN pending' :
              i < j => pending'[i].id < pending'[j].id ]_vars

\* C21 witness: E1 was begun, forwarded and removed, E2 was begun and then
\* E1 again; both waited for the second agent's first reply, and a message
\* of the agent has just advanced E2 and left the new E1.
C21_Witness ==
    /\ last.kind = "phanes"
    /\ Len(out) = 3
    /\ CarriedBy(out[1][1].text) = "E1"
    /\ Len(pending) = 2
    /\ pending[1] = [ ca |-> "E2", state |-> "b_waiting_for_tt_response",
                      id |-> 2, older |-> pending[1].older ]
    /\ pending[2].ca = "E1"
    /\ pending[2].id = 3
    /\ pending[2].state = "b_waiting_for_response"
    /\ Len(last.acts) = 1
    /\ last.acts[1].id = 2

\* the entries of p that p2 does not hold unchanged
Changed(p, p2) == { i \in DOMAIN p : \A j \in DOMAIN p2 : p2[j] # p[i] }

\* C22: a post of a source channel changes no entry that is in the store;
\* a message of the scanner changes one entry at most, of a Solana address
\* in the first Solana state, and removes none; a step of the second
\* agent's handlers, at the arrival of a message or at the return of a
\* send, changes no entry that is in the first Solana state.
C22_ChangedOnlyByOwnAgent ==
    [][ /\ last'.kind \in SourceKinds => Changed(pending, pending') = {}
        /\ last'.kind = "sol_soul_scanner_handler" =>
              /\ Cardinality(Changed(pending, pending')) <= 1
              /\ Ids(pending') = Ids(pending)
              /\ \A i \in Changed(pending, pending') :
                    /\ pending[i].state = "a_soul_scanner"
                    /\ pending[i].ca \in SolanaKeys
        /\ last'.kind \in { "phanes", "resume" } =>
              \A i \in Changed(pending, pending') :
                  pending[i].state # "a_soul_scanner" ]_vars

====
